---- MODULE Spec2Model ----
(***************************************************************************)
(* Model of the credential providers of the YDB Node.js SDK:               *)
(* TokenAuthService (a fixed token) and IamAuthService (a cached IAM token  *)
(* refreshed through a token-exchange request raced against a timer).      *)
(*                                                                         *)
(* Time is the value DateTime.utc() returns, in milliseconds.  Every       *)
(* getAuthMetadata() invocation on the IamAuthService instance is one      *)
(* entry of `calls'; the promise machinery of one invocation is the        *)
(* entry's pc together with the state of its exchange request and timer.   *)
(***************************************************************************)
EXTENDS Integers, Sequences, FiniteSets, TLC

\* ---------------------------------------------------------------- bounds
MaxCalls == 2        \* getAuthMetadata() invocations on the IamAuthService
MaxTicks == 2        \* clock advances
MaxTokenCalls == 2   \* getAuthMetadata() invocations on the TokenAuthService

\* ------------------------------------------------------ program constants
jwtExpirationTimeout == 3600 * 1000
tokenExpirationTimeout == 120 * 1000
tokenRequestTimeout == 10 * 1000

\* `null' of tokenTimestamp; every DateTime is a value >= 0
null == -1

\* the header key of makeCredentialsMetadata
AuthTicketKey == "x-ydb-auth-ticket"

\* the audience of getJwtRequest
JwtAudience == "https://iam.api.cloud.yandex.net/iam/v1/tokens"

\* ------------------------------------------------------------ input sets
\* amounts by which the clock advances between two events: the least one,
\* the least after which a timer's callback can run, and the threshold
Deltas == {1, tokenRequestTimeout - 1, tokenExpirationTimeout}

\* what DateTime.utc() reads when the instance is constructed: just below a
\* half second, so that Math.round in getJwtRequest rounds either way
StartTimes == {499}

\* by how much DateTime.utc() in getJwtRequest is ahead of the clock at which
\* setTimeout armed the timer one statement earlier
ClockSkews == {0, 1}

\* the IAM endpoint issues a token of its own to every exchange request
TokenNames == <<"t1", "t2", "t3", "t4", "t5">>

IssuedToken(c) == TokenNames[c]

\* ICreateIamTokenResponse to the request of call c: iamToken is absent
\* (has = FALSE), the empty string or the token issued
Responses(c) ==
    {[has |-> FALSE, iamToken |-> ""],
     [has |-> TRUE, iamToken |-> ""],
     [has |-> TRUE, iamToken |-> IssuedToken(c)]}

\* tokens a TokenAuthService is constructed with
StaticTokens == {"abc123", "", "ydb-token", "t1.9euelZ"}

\* IIAmCredentials given to the IamAuthService constructor
iamCredentials == [serviceAccountId |-> "sa-1", accessKeyId |-> "key-1"]

Calls == 1..MaxCalls

VARIABLES
    now,             \* DateTime.utc(), ms
    token,           \* IamAuthService.token
    tokenTimestamp,  \* IamAuthService.tokenTimestamp, null or ms
    calls,           \* the getAuthMetadata() invocations on the IamAuthService
    ticks,           \* clock advances so far
    staticToken,     \* TokenAuthService.token
    tokenReturns     \* what TokenAuthService.getAuthMetadata() returned, in order

vars == <<now, token, tokenTimestamp, calls, ticks, staticToken, tokenReturns>>

iamVars == <<now, token, tokenTimestamp, calls, ticks>>

\* ------------------------------------------------------- pure functions

\* variant of makeCredentialsMetadata: the token under another header
makeCredentialsMetadataBearer(t) == << <<"authorization", t>> >>

\* grpc.Metadata as the sequence of its (key, value) entries
makeCredentialsMetadata(t) == << <<AuthTicketKey, t>> >>

NoMetadata == << >>

\* Math.round(dt.toSeconds()) of a DateTime of ms milliseconds
RoundSeconds(ms) == (ms + 500) \div 1000

\* variant of getJwtRequest: the expiry taken from the token's threshold
getJwtRequestShortExpiry(t) ==
    [iss |-> iamCredentials.serviceAccountId,
     aud |-> JwtAudience,
     iat |-> RoundSeconds(t),
     exp |-> RoundSeconds(t + tokenExpirationTimeout),
     alg |-> "PS256",
     keyid |-> iamCredentials.accessKeyId]

\* the payload and header getJwtRequest signs at time t
getJwtRequest(t) ==
    [iss |-> iamCredentials.serviceAccountId,
     aud |-> JwtAudience,
     iat |-> RoundSeconds(t),
     exp |-> RoundSeconds(t + jwtExpirationTimeout),
     alg |-> "PS256",
     keyid |-> iamCredentials.accessKeyId]

\* variants of `expired': stale already at the threshold, stale only after
\* the JWT validity window, and without the null test
expiredAtThreshold(ts, t) == ts = null \/ t - ts >= tokenExpirationTimeout

expiredAfterJwtTimeout(ts, t) == ts = null \/ t - ts > jwtExpirationTimeout

expiredIgnoringNull(ts, t) == t - ts > tokenExpirationTimeout

\* the getter `expired', for tokenTimestamp ts read at time t
expired(ts, t) == ts = null \/ t - ts > tokenExpirationTimeout

\* `if (iamToken)': neither undefined/null nor the empty string
Truthy(resp) == resp.has /\ resp.iamToken # ""

\* ------------------------------------------------------------ one call
IdleCall ==
    [pc |-> "idle", req |-> "none", timer |-> "none", armedAt |-> 0,
     sent |-> 0, err |-> "none", result |-> NoMetadata,
     tsAtStart |-> null, jwt |-> << >>, resp |-> << >>]

Init ==
    /\ now \in StartTimes
    /\ token = ""
    /\ tokenTimestamp = null
    /\ calls = [c \in Calls |-> IdleCall]
    /\ ticks = 0
    /\ staticToken = "abc123"
    /\ tokenReturns = << >>

\* sendTokenRequest: arm the timer, then build the JWT from a clock read of
\* its own, skew later, and send the exchange request
sendTokenRequest(call, skew) ==
    [call EXCEPT !.timer = "armed", !.armedAt = now,
                 !.jwt = <<getJwtRequest(now + skew)>>,
                 !.req = "pending", !.sent = @ + 1]

\* getAuthMetadata() up to its first suspension: a stale cache starts a
\* refresh, a fresh one returns the cached token at once
GetAuthMetadata(c) ==
    /\ calls[c].pc = "idle"
    /\ \A d \in Calls : d < c => calls[d].pc # "idle"
    /\ IF expired(tokenTimestamp, now)
         THEN \E skew \in ClockSkews :
                  /\ skew > 0 => ticks < MaxTicks
                  /\ calls' = [calls EXCEPT ![c] =
                         [sendTokenRequest(calls[c], skew) EXCEPT
                              !.pc = "waiting", !.tsAtStart = tokenTimestamp]]
                  /\ now' = now + skew
                  /\ ticks' = IF skew > 0 THEN ticks + 1 ELSE ticks
         ELSE /\ calls' = [calls EXCEPT ![c] =
                     [@ EXCEPT !.pc = "done", !.tsAtStart = tokenTimestamp,
                               !.result = makeCredentialsMetadata(token)]]
              /\ UNCHANGED <<now, ticks>>
    /\ UNCHANGED <<token, tokenTimestamp, staticToken, tokenReturns>>

\* variants of updateToken: caching whatever came, writing the token without
\* its timestamp, and stamping the cache on an empty response
updateTokenUnchecked(c, resp) ==
    /\ token' = resp.iamToken
    /\ tokenTimestamp' = now
    /\ calls' = [calls EXCEPT ![c] =
           [@ EXCEPT !.req = "resolved", !.resp = <<resp>>, !.pc = "updated"]]

updateTokenWithoutTimestamp(c, resp) ==
    IF Truthy(resp)
      THEN /\ token' = resp.iamToken
           /\ calls' = [calls EXCEPT ![c] =
                  [@ EXCEPT !.req = "resolved", !.resp = <<resp>>,
                            !.pc = "updated"]]
           /\ UNCHANGED tokenTimestamp
      ELSE /\ calls' = [calls EXCEPT ![c] =
                  [@ EXCEPT !.req = "resolved", !.resp = <<resp>>,
                            !.pc = "failed", !.err = "EmptyToken"]]
           /\ UNCHANGED <<token, tokenTimestamp>>

updateTokenStampingFailure(c, resp) ==
    IF Truthy(resp)
      THEN /\ token' = resp.iamToken
           /\ tokenTimestamp' = now
           /\ calls' = [calls EXCEPT ![c] =
                  [@ EXCEPT !.req = "resolved", !.resp = <<resp>>,
                            !.pc = "updated"]]
      ELSE /\ calls' = [calls EXCEPT ![c] =
                  [@ EXCEPT !.req = "resolved", !.resp = <<resp>>,
                            !.pc = "failed", !.err = "EmptyToken"]]
           /\ tokenTimestamp' = now
           /\ UNCHANGED token

\* updateToken after `await this.sendTokenRequest()' delivered resp to call c
updateToken(c, resp) ==
    IF Truthy(resp)
      THEN /\ token' = resp.iamToken
           /\ tokenTimestamp' = now
           /\ calls' = [calls EXCEPT ![c] =
                  [@ EXCEPT !.req = "resolved", !.resp = <<resp>>,
                            !.pc = "updated"]]
      ELSE /\ calls' = [calls EXCEPT ![c] =
                  [@ EXCEPT !.req = "resolved", !.resp = <<resp>>,
                            !.pc = "failed", !.err = "EmptyToken"]]
           /\ UNCHANGED <<token, tokenTimestamp>>

\* variant of Respond: the response is applied although the race has settled
RespondIgnoringRace(c, resp) ==
    /\ calls[c].req = "pending"
    /\ IF calls[c].pc \in {"waiting", "failed"}
         THEN IF Truthy(resp)
                THEN /\ token' = resp.iamToken
                     /\ tokenTimestamp' = now
                     /\ calls' = [calls EXCEPT ![c] =
                            [@ EXCEPT !.req = "resolved", !.resp = <<resp>>,
                                      !.pc = "updated", !.err = "none"]]
                ELSE /\ calls' = [calls EXCEPT ![c] =
                            [@ EXCEPT !.req = "resolved", !.resp = <<resp>>,
                                      !.pc = "failed", !.err = "EmptyToken"]]
                     /\ UNCHANGED <<token, tokenTimestamp>>
         ELSE /\ calls' = [calls EXCEPT ![c] = [@ EXCEPT !.req = "resolved"]]
              /\ UNCHANGED <<token, tokenTimestamp>>
    /\ UNCHANGED <<now, ticks, staticToken, tokenReturns>>

\* the exchange request of call c resolves with resp; Promise.race passes it
\* on only if the race has not settled yet, and nothing reads it otherwise
Respond(c, resp) ==
    /\ calls[c].req = "pending"
    /\ IF calls[c].pc = "waiting"
         THEN updateToken(c, resp)
         ELSE /\ calls' = [calls EXCEPT ![c] = [@ EXCEPT !.req = "resolved"]]
              /\ UNCHANGED <<token, tokenTimestamp>>
    /\ UNCHANGED <<now, ticks, staticToken, tokenReturns>>

\* variant of TransportError: the request is sent again instead of failing
TransportErrorRetried(c) ==
    /\ calls[c].req = "pending"
    /\ IF calls[c].pc = "waiting" /\ calls[c].sent < 2
         THEN calls' = [calls EXCEPT ![c] = [@ EXCEPT !.sent = @ + 1]]
         ELSE calls' = [calls EXCEPT ![c] = [@ EXCEPT !.req = "rejected"]]
    /\ UNCHANGED <<now, token, tokenTimestamp, ticks, staticToken, tokenReturns>>

\* variant of TransportError: the failure also drops the cached token
TransportErrorClearingCache(c) ==
    /\ calls[c].req = "pending"
    /\ IF calls[c].pc = "waiting"
         THEN /\ calls' = [calls EXCEPT ![c] =
                     [@ EXCEPT !.req = "rejected", !.pc = "failed",
                               !.err = "TransportError"]]
              /\ token' = ""
              /\ tokenTimestamp' = null
         ELSE /\ calls' = [calls EXCEPT ![c] = [@ EXCEPT !.req = "rejected"]]
              /\ UNCHANGED <<token, tokenTimestamp>>
    /\ UNCHANGED <<now, ticks, staticToken, tokenReturns>>

\* the exchange request of call c rejects with a transport error
TransportError(c) ==
    /\ calls[c].req = "pending"
    /\ IF calls[c].pc = "waiting"
         THEN calls' = [calls EXCEPT ![c] =
                  [@ EXCEPT !.req = "rejected", !.pc = "failed",
                            !.err = "TransportError"]]
         ELSE calls' = [calls EXCEPT ![c] = [@ EXCEPT !.req = "rejected"]]
    /\ UNCHANGED <<now, token, tokenTimestamp, ticks, staticToken, tokenReturns>>

\* variants of TimerFire: the timer fails the call whatever its state, and
\* the timer's rejection is lost
TimerFireAlwaysRejects(c) ==
    /\ calls[c].timer = "armed"
    /\ now >= calls[c].armedAt + tokenRequestTimeout - 1
    /\ calls' = [calls EXCEPT ![c] =
           [@ EXCEPT !.timer = "fired", !.pc = "failed", !.err = "Timeout",
                     !.result = NoMetadata]]
    /\ UNCHANGED <<now, token, tokenTimestamp, ticks, staticToken, tokenReturns>>

TimerFireWithoutReject(c) ==
    /\ calls[c].timer = "armed"
    /\ now >= calls[c].armedAt + tokenRequestTimeout - 1
    /\ calls' = [calls EXCEPT ![c] = [@ EXCEPT !.timer = "fired"]]
    /\ UNCHANGED <<now, token, tokenTimestamp, ticks, staticToken, tokenReturns>>

\* setTimeout(reject, tokenRequestTimeout) of call c fires.  The runtime
\* measures the delay on its own clock: the callback can run when
\* DateTime.utc() reads one millisecond less than the delay
TimerFire(c) ==
    /\ calls[c].timer = "armed"
    /\ now >= calls[c].armedAt + tokenRequestTimeout - 1
    /\ IF calls[c].pc = "waiting"
         THEN calls' = [calls EXCEPT ![c] =
                  [@ EXCEPT !.timer = "fired", !.pc = "failed",
                            !.err = "Timeout"]]
         ELSE calls' = [calls EXCEPT ![c] = [@ EXCEPT !.timer = "fired"]]
    /\ UNCHANGED <<now, token, tokenTimestamp, ticks, staticToken, tokenReturns>>

\* getAuthMetadata() resumes after `await this.updateToken()' and returns
Return(c) ==
    /\ calls[c].pc = "updated"
    /\ calls' = [calls EXCEPT ![c] =
           [@ EXCEPT !.pc = "done", !.result = makeCredentialsMetadata(token)]]
    /\ UNCHANGED <<now, token, tokenTimestamp, ticks, staticToken, tokenReturns>>

\* the clock advances, whatever the calls are doing
Tick(d) ==
    /\ ticks < MaxTicks
    /\ now' = now + d
    /\ ticks' = ticks + 1
    /\ UNCHANGED <<token, tokenTimestamp, calls, staticToken, tokenReturns>>

\* TokenAuthService.getAuthMetadata()
TokenGetAuthMetadata ==
    /\ Len(tokenReturns) < MaxTokenCalls
    /\ tokenReturns' = Append(tokenReturns, makeCredentialsMetadata(staticToken))
    /\ UNCHANGED <<now, token, tokenTimestamp, calls, ticks, staticToken>>

Next ==
    \/ \E c \in Calls : GetAuthMetadata(c)
    \/ \E c \in Calls : \E resp \in Responses(c) : Respond(c, resp)
    \/ \E c \in Calls : TransportError(c)
    \/ \E c \in Calls : TimerFire(c)
    \/ \E c \in Calls : Return(c)
    \/ \E d \in Deltas : Tick(d)

\* the IamAuthService instance and its callers, the endpoint and the clock
Spec == Init /\ [][Next]_vars

\* a TokenAuthService constructed with any token, its callers and the clock
TokenInit ==
    /\ now \in StartTimes
    /\ token = ""
    /\ tokenTimestamp = null
    /\ calls = [c \in Calls |-> IdleCall]
    /\ ticks = 0
    /\ staticToken \in StaticTokens
    /\ tokenReturns = << >>

TokenNext ==
    \/ TokenGetAuthMetadata
    \/ \E d \in Deltas : Tick(d)

TokenSpec == TokenInit /\ [][TokenNext]_vars

\* time passes until the callback of call c's timer can run
Deadline(c) ==
    /\ calls[c].timer = "armed"
    /\ now < calls[c].armedAt + tokenRequestTimeout - 1
    /\ now' = calls[c].armedAt + tokenRequestTimeout - 1
    /\ UNCHANGED <<token, tokenTimestamp, calls, ticks, staticToken, tokenReturns>>

\* the steps of Spec, and time reaching an armed timer's delay however many
\* clock advances there have been
FairNext ==
    \/ \E c \in Calls : GetAuthMetadata(c)
    \/ \E c \in Calls : \E resp \in Responses(c) : Respond(c, resp)
    \/ \E c \in Calls : TransportError(c)
    \/ \E c \in Calls : TimerFire(c)
    \/ \E c \in Calls : Return(c)
    \/ \E d \in Deltas : Tick(d)
    \/ \E c \in Calls : Deadline(c)

\* the event loop's guarantees: time reaches the deadline of every armed
\* timer, a due timer fires, and a queued continuation runs.  The endpoint
\* owes no answer and the callers owe no further call.
FairSpec ==
    /\ Init
    /\ [][FairNext]_vars
    /\ \A c \in Calls :
          /\ WF_vars(Deadline(c))
          /\ WF_vars(TimerFire(c))
          /\ WF_vars(Return(c))

\* ------------------------------------------------------------ properties

\* call c leaves "idle" in this step: getAuthMetadata() is invoked
Started(c) == calls[c].pc = "idle" /\ calls'[c].pc # "idle"

\* exchange requests sent in this step
SentInStep(c) == calls'[c].sent - calls[c].sent

NoRequestSent == \A d \in Calls : SentInStep(d) = 0

CacheUnchanged == token' = token /\ tokenTimestamp' = tokenTimestamp

\* the exchange requests that have not settled
InFlight == {c \in Calls : calls[c].req = "pending"}

\* C1: once a token has been issued, a getAuthMetadata() call made while at
\* most tokenExpirationTimeout ms have passed since tokenTimestamp sends no
\* exchange request, leaves token and tokenTimestamp as they are and returns
\* the cached token.
C1_FreshCallUsesCache ==
    [][\A c \in Calls :
          (/\ Started(c)
           /\ tokenTimestamp # null
           /\ now - tokenTimestamp <= tokenExpirationTimeout)
          => /\ NoRequestSent
             /\ CacheUnchanged
             /\ calls'[c].pc = "done"
             /\ calls'[c].req = "none"
             /\ calls'[c].result = << <<"x-ydb-auth-ticket", token>> >>]_vars

\* a call returned from the cache exactly tokenExpirationTimeout ms after the
\* refresh
C1_Witness ==
    \E c \in Calls :
        /\ calls[c].pc = "done"
        /\ calls[c].sent = 0
        /\ token # ""
        /\ calls[c].result = << <<"x-ydb-auth-ticket", token>> >>
        /\ now - tokenTimestamp = tokenExpirationTimeout

\* C2 as claimed: a call sends exactly one exchange request when no token was
\* ever issued or at least tokenExpirationTimeout ms have passed since
\* tokenTimestamp (exactly that many included), and none otherwise.
C2_StaleAtThreshold ==
    [][\A c \in Calls :
          Started(c) =>
              IF tokenTimestamp = null
                   \/ now - tokenTimestamp >= tokenExpirationTimeout
                THEN SentInStep(c) = 1 /\ \A d \in Calls \ {c} : SentInStep(d) = 0
                ELSE NoRequestSent]_vars

\* C2 amended: a call sends exactly one exchange request when no token was
\* ever issued or more than tokenExpirationTimeout ms have passed since
\* tokenTimestamp, and none otherwise; at exactly tokenExpirationTimeout ms
\* the cache is not stale.
C2_StaleAfterThreshold ==
    [][\A c \in Calls :
          Started(c) =>
              IF tokenTimestamp = null
                   \/ now - tokenTimestamp > tokenExpirationTimeout
                THEN /\ SentInStep(c) = 1
                     /\ calls'[c].req = "pending"
                     /\ \A d \in Calls \ {c} : SentInStep(d) = 0
                ELSE NoRequestSent /\ calls'[c].req = "none"]_vars

\* a call found the token of an earlier refresh stale one millisecond past
\* the threshold and sent its own exchange request
C2_Witness ==
    \E c, d \in Calls :
        /\ d < c
        /\ calls[d].pc = "done" /\ calls[d].sent = 1
        /\ calls[c].sent = 1
        /\ calls[c].req = "pending"
        /\ calls[c].tsAtStart # null
        /\ calls[c].armedAt - calls[c].tsAtStart = tokenExpirationTimeout + 1

\* C3: when the exchange request of a waiting call resolves with an absent or
\* empty iamToken, the call fails with EmptyToken and the step changes neither
\* token nor tokenTimestamp.
C3_EmptyTokenFails ==
    [][\A c \in Calls :
          (/\ calls[c].pc = "waiting"
           /\ calls[c].req = "pending"
           /\ calls'[c].req = "resolved"
           /\ \/ ~calls'[c].resp[1].has
              \/ calls'[c].resp[1].iamToken = "")
          => /\ calls'[c].pc = "failed"
             /\ calls'[c].err = "EmptyToken"
             /\ calls'[c].result = NoMetadata
             /\ CacheUnchanged]_vars

\* a call failed with EmptyToken while a token issued earlier is still cached
C3_Witness ==
    \E c \in Calls :
        /\ calls[c].err = "EmptyToken"
        /\ calls[c].tsAtStart # null
        /\ token # ""
        /\ tokenTimestamp = calls[c].tsAtStart

\* C4: when the timer of a waiting call fires, the call fails with Timeout;
\* from then on its outcome never changes, and the late settling of its
\* exchange request changes neither token nor tokenTimestamp.
C4_TimeoutDiscardsLateResult ==
    [][\A c \in Calls :
          /\ (/\ calls[c].pc = "waiting"
              /\ calls[c].timer = "armed"
              /\ calls'[c].timer = "fired")
             => /\ calls'[c].pc = "failed"
                /\ calls'[c].err = "Timeout"
                /\ calls'[c].result = NoMetadata
                /\ CacheUnchanged
          /\ calls[c].err = "Timeout"
             => /\ calls'[c].pc = "failed"
                /\ calls'[c].err = "Timeout"
                /\ calls'[c].result = NoMetadata
                /\ (calls'[c].req # calls[c].req => CacheUnchanged)]_vars

\* a call timed out, its request resolved later, and the cache still holds
\* the token another call's refresh stored
C4_Witness ==
    \E c, d \in Calls :
        /\ c # d
        /\ calls[c].err = "Timeout"
        /\ calls[c].req = "resolved"
        /\ calls[c].resp = << >>
        /\ token = IssuedToken(d)

\* C5: in every state, token is non-empty exactly when tokenTimestamp is set.
C5_TokenIffTimestamp == (token # "") <=> (tokenTimestamp # null)

\* a token is cached, and a refresh has failed after one has succeeded
C5_Witness ==
    /\ token # ""
    /\ tokenTimestamp # null
    /\ \E c \in Calls : calls[c].pc = "failed" /\ calls[c].tsAtStart # null

\* C6: a call sends at most one exchange request; a call whose refresh failed
\* has failed, carries the kind of the failure and no metadata; a call that
\* went through a refresh returns only after a non-empty token arrived.
C6_FailuresPropagate ==
    \A c \in Calls :
        /\ calls[c].sent <= 1
        /\ calls[c].pc = "failed" <=> calls[c].err # "none"
        /\ calls[c].pc = "failed" =>
               /\ calls[c].sent = 1
               /\ calls[c].result = NoMetadata
        /\ calls[c].err = "TransportError" => calls[c].req = "rejected"
        /\ calls[c].err = "EmptyToken" =>
               calls[c].req = "resolved" /\ ~Truthy(calls[c].resp[1])
        /\ calls[c].err = "Timeout" => calls[c].timer = "fired"
        /\ (calls[c].sent = 1 /\ calls[c].pc \in {"updated", "done"}) =>
               calls[c].req = "resolved" /\ Truthy(calls[c].resp[1])
        /\ (calls[c].pc = "waiting") =>
               calls[c].req = "pending" /\ calls[c].timer = "armed"

\* one call failed with a transport error, another with a timeout
C6_Witness ==
    \E c, d \in Calls :
        /\ calls[c].err = "TransportError"
        /\ calls[d].err = "Timeout"

\* C7: the step in which a refresh fails leaves token and tokenTimestamp as
\* they are, and the cache is stale after it unless another refresh succeeded
\* since the call started; a call started after a failure, with no successful
\* refresh since, sends an exchange request.
C7_FailureLeavesCacheStale ==
    [][\A c \in Calls :
          /\ (calls[c].pc = "waiting" /\ calls'[c].pc = "failed")
             => /\ CacheUnchanged
                /\ tokenTimestamp = calls[c].tsAtStart
                     => (tokenTimestamp' = null
                           \/ now' - tokenTimestamp' > tokenExpirationTimeout)
          /\ (/\ Started(c)
              /\ \E d \in Calls :
                    /\ calls[d].pc = "failed"
                    /\ calls[d].tsAtStart = tokenTimestamp)
             => /\ SentInStep(c) = 1
                /\ calls'[c].pc = "waiting"
                /\ calls'[c].req = "pending"]_vars

\* after a refresh timed out, the next call is waiting for its own exchange
\* request
C7_Witness ==
    \E c, d \in Calls :
        /\ c < d
        /\ calls[c].err = "Timeout"
        /\ calls[d].pc = "waiting"
        /\ calls[d].tsAtStart = calls[c].tsAtStart
        /\ calls[d].armedAt >= calls[c].armedAt + tokenRequestTimeout - 1

\* C8: every TokenAuthService.getAuthMetadata() returns the single entry
\* x-ydb-auth-ticket -> the token given at construction, and the step sends
\* no exchange request and changes nothing else.
C8_StaticTokenMetadata ==
    [][Len(tokenReturns') > Len(tokenReturns)
          => /\ tokenReturns' =
                   Append(tokenReturns, << <<"x-ydb-auth-ticket", staticToken>> >>)
             /\ \A i \in 1..Len(tokenReturns') :
                   tokenReturns'[i] = << <<"x-ydb-auth-ticket", staticToken>> >>
             /\ staticToken' = staticToken
             /\ InFlight' = {}
             /\ UNCHANGED iamVars]_vars

\* the static token was returned MaxTokenCalls times, with time passing between
C8_Witness ==
    /\ Len(tokenReturns) = MaxTokenCalls
    /\ tokenReturns[Len(tokenReturns)] = << <<"x-ydb-auth-ticket", staticToken>> >>
    /\ staticToken = "ydb-token"
    /\ ticks > 0

\* C9 as claimed: at most one exchange request is in flight at any time.
C9_OneRequestInFlight == Cardinality(InFlight) <= 1

\* C10: a call that returns carries exactly the entry x-ydb-auth-ticket -> the
\* token cached at that moment, which is not the empty string.
C10_ReturnsCachedToken ==
    [][\A c \in Calls :
          (calls[c].pc # "done" /\ calls'[c].pc = "done")
          => /\ calls'[c].result = << <<"x-ydb-auth-ticket", token'>> >>
             /\ token' # ""
             /\ calls'[c].err = "none"]_vars

\* a call returned the token another call's refresh cached after its own
C10_Witness ==
    \E c, d \in Calls :
        /\ c # d
        /\ calls[c].pc = "done"
        /\ calls[c].sent = 1
        /\ calls[c].result = << <<"x-ydb-auth-ticket", IssuedToken(d)>> >>

\* the step in which updateToken of call c stores the token of its response
Applies(c) == calls[c].pc = "waiting" /\ calls'[c].pc = "updated"

\* call c went through a refresh that stored its token
Applied(c) == calls[c].sent = 1 /\ calls[c].pc \in {"updated", "done"}

\* C11: callers that find the cache stale each send their own exchange
\* request; every response applied writes the token of that response together
\* with the time of that step, and nothing else writes either field, so the
\* cache always holds the pair of the response applied last.
C11_LastWriterPairWins ==
    [][/\ \A c \in Calls :
             Applies(c) =>
                 /\ calls[c].sent = 1
                 /\ calls'[c].resp = <<[has |-> TRUE, iamToken |-> token']>>
                 /\ token' = IssuedToken(c)
                 /\ tokenTimestamp' = now'
                 /\ now' = now
       /\ (\A c \in Calls : ~Applies(c)) => CacheUnchanged]_vars

\* two calls found the cache unissued, both sent a request and both responses
\* were applied, the one of the call started first being applied last
C11_Witness ==
    /\ \A c \in {1, 2} : Applied(c) /\ calls[c].tsAtStart = null
    /\ calls[1].armedAt = calls[2].armedAt
    /\ token = IssuedToken(1)
    /\ tokenTimestamp = now
    /\ now > calls[1].armedAt

\* C12 as claimed: once the response of a later-started exchange request has
\* been applied, the cache never holds the token of an earlier-started one.
C12_NewerRefreshWins ==
    \A c, d \in Calls :
        (c < d /\ Applied(c) /\ Applied(d)) => token # IssuedToken(c)

\* C13: token and tokenTimestamp change only in the step that applies a
\* non-empty response to a call that is still waiting with its timer armed;
\* every other step leaves both as they are.
C13_OnlyRefreshWritesCache ==
    [][(token' # token \/ tokenTimestamp' # tokenTimestamp)
          => \E c \in Calls :
                /\ calls[c].pc = "waiting"
                /\ calls[c].req = "pending"
                /\ calls[c].timer = "armed"
                /\ calls'[c].timer = "armed"
                /\ calls'[c].req = "resolved"
                /\ calls'[c].resp[1].has
                /\ calls'[c].resp[1].iamToken # ""
                /\ token' = calls'[c].resp[1].iamToken
                /\ tokenTimestamp' = now]_vars

\* a token is cached while one call failed on a transport error, with its
\* timer fired later
C13_Witness ==
    \E c, d \in Calls :
        /\ Applied(c)
        /\ token = IssuedToken(c)
        /\ calls[d].err = "TransportError"
        /\ calls[d].timer = "fired"

\* C14: the cache starts unissued; it leaves that state only when a response
\* is applied; once issued, token is never empty again and tokenTimestamp is
\* never cleared and never decreases; a valid token becomes stale only by the
\* clock advancing; and in every state an idle call can be started.
C14_TokenLifecycle ==
    /\ token = "" /\ tokenTimestamp = null
    /\ [][/\ (tokenTimestamp = null /\ tokenTimestamp' # null)
               => \E c \in Calls : Applies(c)
          /\ tokenTimestamp # null
               => /\ tokenTimestamp' # null
                  /\ tokenTimestamp' >= tokenTimestamp
                  /\ token' # ""
          /\ (/\ tokenTimestamp # null
              /\ now - tokenTimestamp <= tokenExpirationTimeout
              /\ now' - tokenTimestamp' > tokenExpirationTimeout)
               => now' > now /\ CacheUnchanged
          /\ \A c \in Calls :
                (/\ calls'[c].pc = "idle"
                 /\ \A d \in Calls : d < c => calls'[d].pc # "idle")
                => (ENABLED GetAuthMetadata(c))']_vars

\* a token was issued, went stale and was replaced by a later refresh, while
\* a call can still be started
C14_Witness ==
    \E c, d \in Calls :
        /\ Applied(c) /\ Applied(d)
        /\ calls[d].tsAtStart # null
        /\ tokenTimestamp > calls[d].tsAtStart + tokenExpirationTimeout
        /\ token = IssuedToken(d)

\* C16: every exchange request carries an assertion built for it: issuer =
\* the service-account id, audience = the token-exchange URI, key id = the
\* signing-key id, issued-at = the clock getJwtRequest read (the last read of
\* the sending step, not before the timer was armed) rounded to seconds,
\* expiry = issued-at + 3600 s; two assertions differ at most in issued-at
\* and expiry.
C16_FreshAssertionPerRefresh ==
    /\ [](\A c \in Calls :
             /\ calls[c].sent = 0 <=> calls[c].jwt = << >>
             /\ calls[c].sent >= 1 =>
                   /\ Len(calls[c].jwt) = 1
                   /\ calls[c].jwt[1].iss = "sa-1"
                   /\ calls[c].jwt[1].aud =
                          "https://iam.api.cloud.yandex.net/iam/v1/tokens"
                   /\ calls[c].jwt[1].keyid = "key-1"
                   /\ calls[c].jwt[1].alg = "PS256"
                   /\ calls[c].jwt[1].exp = calls[c].jwt[1].iat + 3600
                   /\ \A d \in Calls :
                         calls[d].sent >= 1 =>
                             [calls[d].jwt[1] EXCEPT !.iat = 0, !.exp = 0]
                                 = [calls[c].jwt[1] EXCEPT !.iat = 0, !.exp = 0])
    /\ [][\A c \in Calls :
             /\ SentInStep(c) = 1 =>
                   /\ calls'[c].armedAt = now
                   /\ now' >= calls'[c].armedAt
                   /\ calls'[c].jwt[1].iat * 1000 - now' <= 500
                   /\ calls'[c].jwt[1].iat * 1000 - now' > -500
             /\ SentInStep(c) = 0 => calls'[c].jwt = calls[c].jwt]_vars

\* two refreshes carry assertions that differ in issued-at and expiry: the
\* timer of the later one was armed just below a half second and its
\* assertion, built a millisecond later, is of the next second
C16_Witness ==
    \E c, d \in Calls :
        /\ calls[c].sent = 1 /\ calls[d].sent = 1
        /\ calls[c].jwt[1].iat < calls[d].jwt[1].iat
        /\ calls[c].jwt[1].exp < calls[d].jwt[1].exp
        /\ calls[d].jwt[1].iat * 1000 - calls[d].armedAt > 500

\* C17 as claimed: when a call returns, a token has been issued and at most
\* tokenExpirationTimeout ms have passed since the tokenTimestamp of the
\* token it returns.
C17_ReturnedTokenIsValid ==
    [][\A c \in Calls :
          (calls[c].pc # "done" /\ calls'[c].pc = "done")
          => /\ tokenTimestamp' # null
             /\ now' - tokenTimestamp' <= tokenExpirationTimeout
             /\ calls'[c].result = << <<"x-ydb-auth-ticket", token'>> >>]_vars

\* C17 amended: a call returns the token cached at that moment, and that
\* token passed the call's own staleness policy the last time the call
\* looked: a call served from the cache returns in the step of its check,
\* at most tokenExpirationTimeout ms after tokenTimestamp; a call that
\* refreshed returns a token whose tokenTimestamp is not before the call
\* sent its request, however long the return comes after the write.
C17_ReturnedTokenPassedCheck ==
    [][\A c \in Calls :
          (calls[c].pc # "done" /\ calls'[c].pc = "done")
          => /\ tokenTimestamp' # null
             /\ calls'[c].result = << <<"x-ydb-auth-ticket", token'>> >>
             /\ calls[c].pc = "idle"
                  => /\ now' = now
                     /\ now' - tokenTimestamp' <= tokenExpirationTimeout
             /\ calls[c].pc # "idle"
                  => /\ calls[c].pc = "updated"
                     /\ tokenTimestamp' >= calls[c].armedAt]_vars

\* a call refreshed a stale token and has returned the new one
C17_Witness ==
    \E c, d \in Calls :
        /\ c < d
        /\ calls[c].pc = "done"
        /\ Applied(d) /\ calls[d].pc = "done"
        /\ calls[d].tsAtStart # null
        /\ calls[d].result = << <<"x-ydb-auth-ticket", IssuedToken(d)>> >>
        /\ tokenTimestamp >= calls[d].armedAt

\* C18: a call that has succeeded or failed keeps its outcome; when the timer
\* of a call whose race the response already settled fires, the step changes
\* only that timer: not the call's outcome, not the cache, no other call.
C18_LateTimerChangesNothing ==
    [][\A c \in Calls :
          /\ calls[c].pc \in {"done", "failed"}
               => /\ calls'[c].pc = calls[c].pc
                  /\ calls'[c].err = calls[c].err
                  /\ calls'[c].result = calls[c].result
          /\ (/\ calls[c].timer = "armed"
              /\ calls'[c].timer = "fired"
              /\ calls[c].req # "pending")
               => /\ calls' = [calls EXCEPT ![c] = [@ EXCEPT !.timer = "fired"]]
                  /\ CacheUnchanged]_vars

\* the timer of a call that returned its token fired while a call started
\* after it was still waiting; that call keeps waiting
C18_Witness ==
    \E c, d \in Calls :
        /\ c < d
        /\ Applied(c) /\ calls[c].pc = "done"
        /\ calls[c].timer = "fired"
        /\ calls[d].pc = "waiting"
        /\ calls[d].timer = "armed"
        /\ now >= calls[d].armedAt + tokenRequestTimeout - 1

\* C15: every call that started a refresh eventually returns or fails, also
\* when its exchange request is never answered, and no call is still waiting
\* once its timer has fired.
C15_EveryCallSettles ==
    /\ \A c \in Calls :
          [](calls[c].pc \in {"waiting", "updated"}
                => <>(calls[c].pc \in {"done", "failed"}))
    /\ [](\A c \in Calls : calls[c].timer = "fired" => calls[c].pc # "waiting")

\* a call failed on its timer as soon as the callback could run, while its
\* exchange request is still unanswered
C15_Witness ==
    \E c \in Calls :
        /\ calls[c].err = "Timeout"
        /\ calls[c].req = "pending"
        /\ now = calls[c].armedAt + tokenRequestTimeout - 1
        /\ \E d \in Calls : d < c /\ calls[d].pc = "done"

====
